---- MODULE Spec2Model ----
(***************************************************************************)
(* A model of the rodbus client core:                                      *)
(*   - src/src/mbap.rs     the MBAP frame codec (MBAPParser, MBAPFormatter) *)
(*   - src/src/channel.rs  the channel engine (Channel, ChannelServer)      *)
(* Bytes are integers 0..255, u16 values are integers 0..65535.  Buffers    *)
(* are sequences indexed from 1, so the Rust index i is the index i+1 here. *)
(***************************************************************************)
EXTENDS Integers, Sequences, FiniteSets, TLC

VARIABLES
    \* ---- MBAPFormatter (mbap.rs) ----
    fbuf,       \* MBAPFormatter.buffer, kept from one format call to the next
    fout,       \* what the last format call returned
    fargs,      \* the arguments of the last format call
    nfmt,       \* number of format calls made
    \* ---- MBAPParser and its ReadBuffer (mbap.rs) ----
    input,      \* the byte stream that is being delivered to the parser
    fed,        \* how many bytes of input have been appended to the ReadBuffer
    rbuf,       \* the unread bytes of the ReadBuffer (the cursor)
    pstate,     \* MBAPParser.state
    presult,    \* what the last parse call returned
    pbefore,    \* parser state and unread bytes just before the last parse call
    nframes,    \* number of frames parse has emitted for this input
    emitted,    \* history: the frames parse has emitted for this input, in order
    \* ---- Channel, sessions and reply slots (channel.rs) ----
    chan,       \* the Channel and the Sessions made from it (the senders) are alive
    queue,      \* the mpsc queue of request envelopes
    nsub,       \* number of requests submitted; the n-th one has id n
    ndeq,       \* number of envelopes recv has returned to the engine
    reply,      \* per request id: its oneshot reply slot
    \* ---- ChannelServer (channel.rs) ----
    pc,         \* the await point the engine task is suspended at
    cur,        \* the envelope handle_request is processing (at a panic: was processing)
    socket,     \* ChannelServer.socket: 0 is None, k is the k-th connection made
    buffer,     \* ChannelServer.buffer
    msglen,     \* length of the slice write_request returned
    rlength,    \* the local variable length of handle
    cursrc,     \* whose response the bytes read for cur were sent for
    rd,         \* history: what the reads of the last handle call consumed
    \* ---- the transport and the peer ----
    link,       \* state of the connection the socket holds
    inbox,      \* request frames the peer has received and not answered
    rx,         \* bytes the peer has sent that the engine has not read
    sent,       \* per request id: the payload the peer sent in answer to it
    senthdr,    \* per request id: the header and function code the peer sent
    peerHonest, \* the peer has only sent well-formed answers so far
    log         \* history: frames written and reply slots filled, in order

codecVars == <<fbuf, fout, fargs, nfmt, input, fed, rbuf, pstate, presult, pbefore, nframes, emitted>>

clientVars == <<chan, queue, nsub, reply>>
serverVars == <<pc, ndeq, cur, socket, buffer, msglen, rlength, cursrc, rd>>
envVars == <<link, inbox, rx, sent, senthdr, peerHonest>>
peerVars == <<envVars, log>>
engineVars == <<clientVars, serverVars, peerVars>>

vars == <<codecVars, engineVars>>

-----------------------------------------------------------------------------
(* Program constants *)

MBAP_HEADER_LENGTH == 7
MAX_ADU_LENGTH == 253
MAX_MBAP_FRAME_LENGTH == MBAP_HEADER_LENGTH + MAX_ADU_LENGTH

U16_MAX == 65535

-----------------------------------------------------------------------------
(* Bounds of the model and the samples inputs are drawn from *)

MaxMsgLen == 2          \* every message of at most this many bytes is formatted
MaxFormatCalls == 2     \* format calls made on one formatter
MaxChunk == 8           \* chunks of 1..MaxChunk bytes, or all the rest at once

ByteSample == {3, 4}
ProtoSample == {0, 1, 256}
LenSample == {0, 1, 2, 3, MAX_ADU_LENGTH - 1, MAX_ADU_LENGTH, MAX_ADU_LENGTH + 1,
              MAX_MBAP_FRAME_LENGTH, U16_MAX}

\* a body of n bytes whose content varies with the position
Pattern(n, seed) == [i \in 1..n |-> (seed + 7 * i) % 256]

RECURSIVE SeqsUpTo(_, _)
SeqsUpTo(S, n) ==
    IF n = 0 THEN {<<>>}
    ELSE LET shorter == SeqsUpTo(S, n - 1)
         IN shorter \cup {Append(s, b) : s \in {t \in shorter : Len(t) = n - 1}, b \in S}

-----------------------------------------------------------------------------
(* Big-endian encoding *)

U16BE(v) == <<v \div 256, v % 256>>
ReadU16BE(b) == b[1] * 256 + b[2]

-----------------------------------------------------------------------------
(* WriteCursor over a fixed buffer: a write that does not fit fails and      *)
(* every later operation on the failed cursor fails too (the ? operator).    *)

NewCursor(buf) == [ok |-> TRUE, buf |-> buf, pos |-> 0]

write(c, bytes) ==
    IF ~c.ok \/ c.pos + Len(bytes) > Len(c.buf)
    THEN [c EXCEPT !.ok = FALSE]
    ELSE [c EXCEPT !.buf = [i \in 1..Len(c.buf) |->
                               IF i > c.pos /\ i <= c.pos + Len(bytes)
                               THEN bytes[i - c.pos] ELSE c.buf[i]],
                   !.pos = c.pos + Len(bytes)]

write_u8(c, v) == write(c, <<v>>)
write_u16(c, v) == write(c, U16BE(v))

skip(c, n) ==
    IF ~c.ok \/ c.pos + n > Len(c.buf)
    THEN [c EXCEPT !.ok = FALSE]
    ELSE [c EXCEPT !.pos = c.pos + n]

seek_from_start(c, p) ==
    IF ~c.ok \/ p > Len(c.buf)
    THEN [c EXCEPT !.ok = FALSE]
    ELSE [c EXCEPT !.pos = p]

-----------------------------------------------------------------------------
(* MBAPFormatter::format *)

\* the length field written without the unit id being counted
format_LengthWithoutUnitId(buf, tx_id, unit_id, msg) ==
    LET c1 == write_u16(NewCursor(buf), tx_id)
        c2 == write_u16(c1, 0)
        c3 == skip(c2, 2)
        c4 == write_u8(c3, unit_id)
        c5 == write(c4, msg)
        adu_length == c5.pos - c4.pos
        c6 == seek_from_start(c5, 4)
        c7 == write_u16(c6, adu_length)
    IN  IF c7.ok
        THEN [ok |-> TRUE, buf |-> c7.buf,
              out |-> SubSeq(c7.buf, 1, MBAP_HEADER_LENGTH + adu_length)]
        ELSE [ok |-> FALSE, buf |-> c7.buf, out |-> <<>>]

format(buf, tx_id, unit_id, msg) ==
    LET c1 == write_u16(NewCursor(buf), tx_id)
        c2 == write_u16(c1, 0)
        c3 == skip(c2, 2)                       \* write the length later
        c4 == write_u8(c3, unit_id)
        c5 == write(c4, msg)                    \* msg.format_with_length
        adu_length == c5.pos - c4.pos
        frame_length_value == adu_length + 1
        c6 == seek_from_start(c5, 4)
        c7 == IF frame_length_value > U16_MAX   \* u16::try_from
              THEN [c6 EXCEPT !.ok = FALSE]
              ELSE write_u16(c6, frame_length_value)
        total_length == MBAP_HEADER_LENGTH + adu_length
    IN  IF c7.ok
        THEN [ok |-> TRUE, buf |-> c7.buf, out |-> SubSeq(c7.buf, 1, total_length)]
        ELSE [ok |-> FALSE, buf |-> c7.buf, out |-> <<>>]

-----------------------------------------------------------------------------
(* MBAPParser *)

Begin == [tag |-> "Begin", tx_id |-> 0, length |-> 0, unit_id |-> 0]
Header(h) == [tag |-> "Header", tx_id |-> h.tx_id, length |-> h.length, unit_id |-> h.unit_id]

NoResult == [kind |-> "init", unit_id |-> 0, tx_id |-> 0, payload |-> <<>>, code |-> 0]
NoFrameYet == [NoResult EXCEPT !.kind = "none"]
FrameResult(f) == [NoResult EXCEPT !.kind = "frame", !.unit_id = f.unit_id,
                                   !.tx_id = f.tx_id, !.payload = f.payload]
UnknownProtocolId(p) == [NoResult EXCEPT !.kind = "UnknownProtocolId", !.code = p]
BadADULength(l) == [NoResult EXCEPT !.kind = "BadADULength", !.code = l]

\* Frame::new followed by Frame::set
Frame(unit_id, tx_id, bytes) == [unit_id |-> unit_id, tx_id |-> tx_id, payload |-> bytes]

\* ReadBuffer::read(n): the first n unread bytes, and what is left
Take(buf, n) == SubSeq(buf, 1, n)
Drop(buf, n) == SubSeq(buf, n + 1, Len(buf))

\* the length is compared with the whole frame's size instead of the ADU's
parse_header_FrameLimit(buf) ==
    LET tx_id == ReadU16BE(SubSeq(buf, 1, 2))
        protocol_id == ReadU16BE(SubSeq(buf, 3, 4))
        length == ReadU16BE(SubSeq(buf, 5, 6))
        unit_id == buf[7]
        rest == Drop(buf, MBAP_HEADER_LENGTH)
        hdr == [tx_id |-> tx_id, length |-> length, unit_id |-> unit_id]
    IN  IF protocol_id # 0
        THEN [ok |-> FALSE, err |-> UnknownProtocolId(protocol_id), hdr |-> hdr, rest |-> rest]
        ELSE IF length > MAX_MBAP_FRAME_LENGTH
        THEN [ok |-> FALSE, err |-> BadADULength(length), hdr |-> hdr, rest |-> rest]
        ELSE [ok |-> TRUE, err |-> NoResult, hdr |-> hdr, rest |-> rest]

\* the length is checked before the protocol id
parse_header_LengthFirst(buf) ==
    LET tx_id == ReadU16BE(SubSeq(buf, 1, 2))
        protocol_id == ReadU16BE(SubSeq(buf, 3, 4))
        length == ReadU16BE(SubSeq(buf, 5, 6))
        unit_id == buf[7]
        rest == Drop(buf, MBAP_HEADER_LENGTH)
        hdr == [tx_id |-> tx_id, length |-> length, unit_id |-> unit_id]
    IN  IF length > MAX_ADU_LENGTH
        THEN [ok |-> FALSE, err |-> BadADULength(length), hdr |-> hdr, rest |-> rest]
        ELSE IF protocol_id # 0
        THEN [ok |-> FALSE, err |-> UnknownProtocolId(protocol_id), hdr |-> hdr, rest |-> rest]
        ELSE [ok |-> TRUE, err |-> NoResult, hdr |-> hdr, rest |-> rest]

\* called with at least MBAP_HEADER_LENGTH unread bytes; the four reads consume
\* the seven header bytes before any field is checked
parse_header(buf) ==
    LET tx_id == ReadU16BE(SubSeq(buf, 1, 2))
        protocol_id == ReadU16BE(SubSeq(buf, 3, 4))
        length == ReadU16BE(SubSeq(buf, 5, 6))
        unit_id == buf[7]
        rest == Drop(buf, MBAP_HEADER_LENGTH)
        hdr == [tx_id |-> tx_id, length |-> length, unit_id |-> unit_id]
    IN  IF protocol_id # 0
        THEN [ok |-> FALSE, err |-> UnknownProtocolId(protocol_id), hdr |-> hdr, rest |-> rest]
        ELSE IF length > MAX_ADU_LENGTH
        THEN [ok |-> FALSE, err |-> BadADULength(length), hdr |-> hdr, rest |-> rest]
        ELSE [ok |-> TRUE, err |-> NoResult, hdr |-> hdr, rest |-> rest]

\* called with at least header.length unread bytes
parse_body_ReadsToEnd(header, buf) ==
    [frame |-> Frame(header.unit_id, header.tx_id, buf), rest |-> <<>>]

parse_body(header, buf) ==
    [frame |-> Frame(header.unit_id, header.tx_id, Take(buf, header.length)),
     rest |-> Drop(buf, header.length)]

\* the body bytes that are there are taken although the body is not complete
parse_in_header_state_TakesPartBody(st, buf) ==
    IF Len(buf) < st.length
    THEN [state |-> st, rest |-> <<>>, result |-> NoFrameYet]
    ELSE LET ret == parse_body(st, buf)
         IN  [state |-> Begin, rest |-> ret.rest, result |-> FrameResult(ret.frame)]

\* the ParseState::Header arm of parse
parse_in_header_state(st, buf) ==
    IF Len(buf) < st.length
    THEN [state |-> st, rest |-> buf, result |-> NoFrameYet]
    ELSE LET ret == parse_body(st, buf)
         IN  [state |-> Begin, rest |-> ret.rest, result |-> FrameResult(ret.frame)]

\* the header is not remembered when the body is not there yet
parse_ForgetsHeader(st, buf) ==
    IF st.tag = "Header"
    THEN parse_in_header_state(st, buf)
    ELSE IF Len(buf) < MBAP_HEADER_LENGTH
    THEN [state |-> st, rest |-> buf, result |-> NoFrameYet]
    ELSE LET h == parse_header(buf)
         IN  IF ~h.ok
             THEN [state |-> st, rest |-> h.rest, result |-> h.err]
             ELSE LET r == parse_in_header_state(Header(h.hdr), h.rest)
                  IN  [r EXCEPT !.state = Begin]

parse(st, buf) ==
    IF st.tag = "Header"
    THEN parse_in_header_state(st, buf)
    ELSE IF Len(buf) < MBAP_HEADER_LENGTH
    THEN [state |-> st, rest |-> buf, result |-> NoFrameYet]
    ELSE LET h == parse_header(buf)
         IN  IF ~h.ok
             THEN [state |-> st, rest |-> h.rest, result |-> h.err]   \* ? returns before the assignment
             ELSE parse_in_header_state(Header(h.hdr), h.rest)        \* self.parse(cursor)

-----------------------------------------------------------------------------
(* The codec's inputs *)

\* transaction id and unit id of a format call
FormatIds == {<<7, 42>>, <<65535, 255>>}

\* the messages handed to format: every short one, and long ones around the
\* largest that fits the formatter's buffer
Msgs == SeqsUpTo(ByteSample, MaxMsgLen)
        \cup {Pattern(n, 1) : n \in {MAX_ADU_LENGTH - 1, MAX_ADU_LENGTH, MAX_ADU_LENGTH + 1}}

HeaderBytes(tx_id, protocol_id, length, unit_id) ==
    U16BE(tx_id) \o U16BE(protocol_id) \o U16BE(length) \o <<unit_id>>

\* how many bytes follow a header whose length field is len
BodyLens(len) == {n \in {0, 1, len - 1, len, len + 1} : n >= 0 /\ n <= MAX_ADU_LENGTH + 2}

\* the byte streams delivered to the parser: every sampled header, followed by
\* fewer, exactly as many, or more bytes than its length field announces
ParseInputs ==
    UNION {{HeaderBytes(id[1], p, l, id[2]) \o Pattern(n, 1) :
               id \in FormatIds, p \in ProtoSample, n \in BodyLens(l)} :
           l \in LenSample}
    \cup {SubSeq(HeaderBytes(7, 0, 3, 42), 1, n) : n \in 1..(MBAP_HEADER_LENGTH - 1)}

\* streams of frames back to back: frames with no payload, with a short one
\* and with a longer one; a stream may end with a header that is rejected
MaxFrames == 3          \* frames in one stream

SampleFrames ==
    {HeaderBytes(7, 0, 0, 42),
     HeaderBytes(65535, 0, 2, 255) \o Pattern(2, 1),
     HeaderBytes(258, 0, 3, 1) \o Pattern(3, 5)}

RECURSIVE Flatten(_)
Flatten(ss) == IF ss = <<>> THEN <<>> ELSE Head(ss) \o Flatten(Tail(ss))

BadHeaders == {HeaderBytes(7, 1, 2, 42), HeaderBytes(7, 0, MAX_ADU_LENGTH + 1, 42)}

FrameStreams ==
    {Flatten(ss) : ss \in SeqsUpTo(SampleFrames, MaxFrames) \ {<<>>}}
    \cup {Flatten(ss) \o b : ss \in SeqsUpTo(SampleFrames, MaxFrames - 1), b \in BadHeaders}

ChunkSizes(remaining) == {n \in 1..remaining : n <= MaxChunk \/ n = remaining}

-----------------------------------------------------------------------------
(* Initial states *)

FormatterInit ==
    /\ fbuf = [i \in 1..MAX_MBAP_FRAME_LENGTH |-> 0]
    /\ fout = [ok |-> FALSE, out |-> <<>>]
    /\ fargs = [tx_id |-> 0, unit_id |-> 0, msg |-> <<>>]
    /\ nfmt = 0

ParserFresh ==
    /\ fed = 0
    /\ rbuf = <<>>
    /\ pstate = Begin
    /\ presult = NoResult
    /\ pbefore = [state |-> Begin, buf |-> <<>>]
    /\ nframes = 0
    /\ emitted = <<>>

ParserInit == input = <<>> /\ ParserFresh

-----------------------------------------------------------------------------
(* Codec actions *)

\* one call of MBAPFormatter::format; a new parser is made for its output
FormatCall(tx_id, unit_id, msg) ==
    /\ nfmt < MaxFormatCalls
    /\ LET r == format(fbuf, tx_id, unit_id, msg)
       IN  /\ fbuf' = r.buf
           /\ fout' = [ok |-> r.ok, out |-> r.out]
    /\ fargs' = [tx_id |-> tx_id, unit_id |-> unit_id, msg |-> msg]
    /\ nfmt' = nfmt + 1
    /\ input' = <<>>
    /\ fed' = 0
    /\ rbuf' = <<>>
    /\ pstate' = Begin
    /\ presult' = NoResult
    /\ pbefore' = [state |-> Begin, buf |-> <<>>]
    /\ nframes' = 0
    /\ emitted' = <<>>
    /\ UNCHANGED engineVars

\* one call of MBAPParser::parse on a ReadBuffer holding buf
ParseCall(buf) ==
    LET r == parse(pstate, buf)
    IN  /\ pbefore' = [state |-> pstate, buf |-> buf]
        /\ pstate' = r.state
        /\ rbuf' = r.rest
        /\ presult' = r.result
        /\ nframes' = IF r.result.kind = "frame" THEN nframes + 1 ELSE nframes
        /\ emitted' = IF r.result.kind = "frame"
                      THEN Append(emitted, Frame(r.result.unit_id, r.result.tx_id,
                                                 r.result.payload))
                      ELSE emitted

\* the formatter's complete output is given to the new parser in one piece
ParseFormatted ==
    /\ fout.ok
    /\ presult.kind = "init"
    /\ input' = fout.out
    /\ fed' = Len(fout.out)
    /\ ParseCall(fout.out)
    /\ UNCHANGED <<fbuf, fout, fargs, nfmt, engineVars>>

\* the next n bytes of the stream arrive in the ReadBuffer and parse is called
Feed(n) ==
    /\ fed + n <= Len(input)
    /\ fed' = fed + n
    /\ ParseCall(rbuf \o SubSeq(input, fed + 1, fed + n))
    /\ UNCHANGED <<fbuf, fout, fargs, nfmt, input, engineVars>>

\* parse is called again on what the last call left unread
ParseAgain ==
    /\ presult.kind \notin {"init", "none"}
    /\ rbuf # <<>>
    /\ ParseCall(rbuf)
    /\ UNCHANGED <<fbuf, fout, fargs, nfmt, input, fed, engineVars>>

-----------------------------------------------------------------------------
(* The channel engine: constants and inputs *)

MAX_PDU_SIZE == 253
MBAP_SIZE == 7
MAX_ADU_SIZE == MAX_PDU_SIZE + MBAP_SIZE
QUEUE_CAPACITY == 100

MaxRequests == 2        \* requests submitted in one run

\* the unit ids of the sessions made from the channel
UnitIds == {1, 42}
RequestIds == 1..MaxRequests

\* a request argument: its function code, its serialized form, and the number
\* of coils it asks for
ReadCoils(start, quantity) ==
    [fc |-> 1, quantity |-> quantity, ser |-> U16BE(start) \o U16BE(quantity)]

Args == {ReadCoils(0, 8), ReadCoils(258, 9)}

DataSample == {1, 254}

NoReq == [id |-> 0, unit |-> 0, arg |-> ReadCoils(0, 0)]

\* results of handle
NoValue == [kind |-> "none", data |-> <<>>, arg |-> ReadCoils(0, 0), src |-> {}]
Ok(data, arg, src) == [kind |-> "Ok", data |-> data, arg |-> arg, src |-> src]
Err(e) == [NoValue EXCEPT !.kind = e]

-----------------------------------------------------------------------------
(* std::io::Cursor over the scratch buffer: a write stores what fits and     *)
(* fails when not everything fits; after a failure nothing more is done.     *)

io_write(c, bytes) ==
    IF ~c.ok THEN c
    ELSE LET room == Len(c.buf) - c.pos
             n == IF Len(bytes) <= room THEN Len(bytes) ELSE room
         IN  [ok |-> n = Len(bytes),
              buf |-> [i \in 1..Len(c.buf) |->
                          IF i > c.pos /\ i <= c.pos + n THEN bytes[i - c.pos] ELSE c.buf[i]],
              pos |-> c.pos + n]

io_seek(c, p) == IF ~c.ok THEN c ELSE [c EXCEPT !.pos = p]

\* ChannelServer::write_request: kind is "ok" with the length of the returned
\* slice, "err" (Error::Serialization), or "panic" (the slice is out of range)
write_request(buf, unit, transaction_id, arg) ==
    LET c1 == io_write(NewCursor(buf), U16BE(transaction_id))
        c2 == io_write(c1, U16BE(0))
        c3 == io_seek(c2, c2.pos + 2)           \* Length will be written afterwards
        c4 == io_write(c3, <<unit>>)
        c5 == io_write(c4, <<arg.fc>>)
        c6 == io_write(c5, arg.ser)
        len == c6.pos - MBAP_SIZE + 1
        c7 == io_seek(c6, 4)
        c8 == io_write(c7, U16BE(len % (U16_MAX + 1)))
    IN  IF ~c8.ok THEN [kind |-> "err", buf |-> c8.buf, len |-> 0]
        ELSE IF MBAP_SIZE + len > Len(buf) THEN [kind |-> "panic", buf |-> c8.buf, len |-> 0]
        ELSE [kind |-> "ok", buf |-> c8.buf, len |-> MBAP_SIZE + len]

\* the number of bytes of a written slice that are the request's frame
FrameBytes(arg) == MBAP_SIZE + 1 + Len(arg.ser)

\* the first read stops before the function code
HeaderReadSize_NoFunctionCode == MBAP_SIZE

\* the size of the first read of handle, and of the second one
HeaderReadSize == MBAP_SIZE + 1

\* one byte too few is read for the payload
BodyReadSize_OneShort(len) == len - 3

BodyReadSize(len) == len - 2

\* Req::ResponseType::parse for ReadCoils: a byte count, then that many bytes,
\* as many as the requested quantity needs
parse_response(slice, arg) ==
    IF /\ Len(slice) >= 1
       /\ slice[1] = Len(slice) - 1
       /\ slice[1] = (arg.quantity + 7) \div 8
    THEN [some |-> TRUE, data |-> Drop(slice, 1)]
    ELSE [some |-> FALSE, data |-> <<>>]

\* try_open_socket: a connection is attempted when the socket is None
NeedsConnect_Always(sock) == TRUE

NeedsConnect(sock) == sock = 0

\* self.rx.recv(): the oldest envelope of the queue
NextRequest_Newest(q) == [req |-> q[Len(q)], rest |-> SubSeq(q, 1, Len(q) - 1)]

NextRequest(q) == [req |-> Head(q), rest |-> Tail(q)]

-----------------------------------------------------------------------------
(* The peer: what it may send in answer to a request frame *)

GoodPayload(arg, d) ==
    LET bc == (arg.quantity + 7) \div 8
    IN  <<bc>> \o [i \in 1..bc |-> d]

ResponseBytes(transaction_id, protocol_id, len, unit, fc, payload) ==
    U16BE(transaction_id) \o U16BE(protocol_id) \o U16BE(len) \o <<unit, fc>> \o payload

\* well-formed answers: a payload the request's parser accepts, or one it
\* rejects (a byte count of zero)
HonestResponses(f) ==
    {[honest |-> TRUE, payload |-> p,
      bytes |-> ResponseBytes(0, 0, 2 + Len(p), f.unit, f.arg.fc, p)] :
        p \in {GoodPayload(f.arg, d) : d \in DataSample} \cup {<<0>>}}

\* answers with a wrong header: a length field that is too small or larger
\* than the buffer, one byte more or less than the bytes that follow, or a
\* protocol id that is not zero
MalformedResponses(f) ==
    LET p == GoodPayload(f.arg, 1)
    IN  {[honest |-> FALSE, payload |-> p,
          bytes |-> ResponseBytes(0, 0, l, f.unit, f.arg.fc, p)] :
            l \in {0, 1, 1 + Len(p), 3 + Len(p), MAX_ADU_SIZE + 3}}
        \cup {[honest |-> FALSE, payload |-> p,
               bytes |-> ResponseBytes(0, 1, 2 + Len(p), f.unit, f.arg.fc, p)]}

Tagged(bytes, id) == [i \in 1..Len(bytes) |-> [b |-> bytes[i], of |-> id]]
Untagged(tb) == [i \in 1..Len(tb) |-> tb[i].b]
Tags(tb) == {tb[i].of : i \in 1..Len(tb)}

-----------------------------------------------------------------------------
(* Initial state: Channel::new, and create_session for every unit id *)

\* no byte read yet: n bytes consumed, the length field decoded, the slice
\* given to the response parser
NoReads == [n |-> 0, len |-> 0, slice |-> <<>>]

EngineInit ==
    /\ chan = TRUE
    /\ queue = <<>>
    /\ nsub = 0
    /\ reply = [i \in RequestIds |->
                  [state |-> "none", fills |-> 0, value |-> NoValue, unit |-> 0,
                   arg |-> ReadCoils(0, 0)]]
    /\ pc = "recv"
    /\ ndeq = 0
    /\ cur = NoReq
    /\ socket = 0
    /\ buffer = [i \in 1..MAX_ADU_SIZE |-> 0]
    /\ msglen = 0
    /\ rlength = 0
    /\ cursrc = {}
    /\ rd = NoReads
    /\ link = "none"
    /\ inbox = <<>>
    /\ rx = <<>>
    /\ sent = [i \in RequestIds |-> <<>>]
    /\ senthdr = [i \in RequestIds |-> <<>>]
    /\ peerHonest = TRUE
    /\ log = <<>>

-----------------------------------------------------------------------------
(* Callers *)

\* the Channel and its Sessions are dropped, and every sender with them
DropChannel ==
    /\ chan
    /\ chan' = FALSE
    /\ UNCHANGED <<queue, nsub, reply, serverVars, peerVars, codecVars>>

\* a call on a session: an envelope with a new reply slot is put in the queue
Submit(u, arg) ==
    /\ chan
    /\ pc \notin {"panicked", "stopped"}
    /\ nsub < MaxRequests
    /\ Len(queue) < QUEUE_CAPACITY
    /\ nsub' = nsub + 1
    /\ queue' = Append(queue, [id |-> nsub + 1, unit |-> u, arg |-> arg])
    /\ reply' = [reply EXCEPT ![nsub + 1] =
                    [state |-> "pending", fills |-> 0, value |-> NoValue, unit |-> u,
                     arg |-> arg]]
    /\ UNCHANGED <<chan, serverVars, peerVars, codecVars>>

\* AddressRange::is_valid_for_bits: the addressed span lies within the 16-bit
\* address space
is_valid_for_bits(range) ==
    ReadU16BE(SubSeq(range.ser, 1, 2)) + range.quantity <= U16_MAX + 1

is_request_valid_Always(request) == TRUE

\* Service::is_request_valid of a bit-reading service
is_request_valid(request) == is_valid_for_bits(request)

\* calls made by the sessions: a valid one and one whose span ends past the
\* last address
CallArgs == {ReadCoils(0, 8), ReadCoils(U16_MAX, 9)}

\* a call on a session: the request is validated before anything else; an
\* invalid one is answered to the caller at once, a valid one is submitted
Call(u, arg) ==
    IF is_request_valid(arg)
    THEN Submit(u, arg)
    ELSE /\ chan
         /\ pc \notin {"panicked", "stopped"}
         /\ nsub < MaxRequests
         /\ nsub' = nsub + 1
         /\ reply' = [reply EXCEPT ![nsub + 1] =
                         [state |-> "rejected", fills |-> 0,
                          value |-> Err("Validation"), unit |-> u, arg |-> arg]]
         /\ UNCHANGED <<chan, queue, serverVars, peerVars, codecVars>>

\* a caller drops the receiving end of a reply slot that has no value yet
Abandon(i) ==
    /\ reply[i].state = "pending"
    /\ reply' = [reply EXCEPT ![i].state = "abandoned"]
    /\ UNCHANGED <<chan, queue, nsub, serverVars, peerVars, codecVars>>

-----------------------------------------------------------------------------
(* ChannelServer *)

\* handle_request with req.reply_to.send(result).unwrap() in place of the
\* ignored send: the task panics when the receiver is gone
Complete_UnwrapsSend(req, result) ==
    /\ reply' = [reply EXCEPT ![req.id] =
                    IF @.state = "abandoned"
                    THEN [@ EXCEPT !.fills = @ + 1]
                    ELSE [@ EXCEPT !.state = "filled", !.fills = @ + 1,
                                   !.value = result]]
    /\ log' = Append(log, [ev |-> "fill", id |-> req.id])
    /\ pc' = IF reply[req.id].state = "abandoned" THEN "panicked" ELSE "recv"
    /\ cur' = IF reply[req.id].state = "abandoned" THEN cur ELSE NoReq
    /\ msglen' = 0
    /\ rlength' = 0
    /\ cursrc' = {}

\* handle returned result for req: handle_request sends it to the reply slot
\* and run goes back to self.rx.recv(); when the caller has dropped the
\* receiver, send returns the value back and it is discarded
Complete(req, result) ==
    /\ reply' = [reply EXCEPT ![req.id] =
                    IF @.state = "abandoned"
                    THEN [@ EXCEPT !.fills = @ + 1]
                    ELSE [@ EXCEPT !.state = "filled", !.fills = @ + 1,
                                   !.value = result]]
    /\ log' = Append(log, [ev |-> "fill", id |-> req.id])
    /\ pc' = "recv"
    /\ cur' = NoReq
    /\ msglen' = 0
    /\ rlength' = 0
    /\ cursrc' = {}

\* the engine task panics while processing req with q still queued: the task
\* ends, and the envelope being processed and the receiver with the queued
\* envelopes are dropped, their reply slots unfilled
Panic(req, q) ==
    /\ reply' = [i \in RequestIds |->
                    IF /\ i = req.id \/ \E k \in 1..Len(q) : q[k].id = i
                       /\ reply[i].state # "abandoned"
                    THEN [reply[i] EXCEPT !.state = "dropped"]
                    ELSE reply[i]]
    /\ log' = log
    /\ pc' = "panicked"
    /\ msglen' = 0
    /\ rlength' = 0

\* with the socket present: write_request, up to the await of socket.write
Serialize(req, q) ==
    LET w == write_request(buffer, req.unit, 0, req.arg)
    IN  /\ buffer' = w.buf
        /\ IF w.kind = "ok"
           THEN /\ pc' = "write"
                /\ cur' = req
                /\ msglen' = w.len
                /\ queue' = q
                /\ UNCHANGED <<reply, log, rlength, cursrc>>
           ELSE IF w.kind = "err"
           THEN Complete(req, Err("Serialization")) /\ queue' = q
           ELSE Panic(req, q) /\ queue' = <<>> /\ cur' = req /\ cursrc' = cursrc

\* run: recv returns an envelope; handle calls try_open_socket
Dequeue ==
    /\ pc = "recv"
    /\ queue # <<>>
    /\ ndeq' = ndeq + 1
    /\ rd' = NoReads
    /\ LET nr == NextRequest(queue)
       IN  IF NeedsConnect(socket)
           THEN /\ pc' = "connect"
                /\ cur' = nr.req
                /\ queue' = nr.rest
                /\ UNCHANGED <<buffer, msglen, rlength, cursrc, reply, log>>
           ELSE Serialize(nr.req, nr.rest)
    /\ UNCHANGED <<chan, nsub, socket, link, inbox, rx, sent, senthdr, peerHonest, codecVars>>

\* run: recv returns None once every sender is dropped and the queue is empty
RunExit ==
    /\ pc = "recv"
    /\ queue = <<>>
    /\ ~chan
    /\ pc' = "stopped"
    /\ UNCHANGED <<clientVars, ndeq, cur, socket, buffer, msglen, rlength, cursrc, rd,
                   peerVars, codecVars>>

\* try_open_socket: TcpStream::connect succeeds
ConnectOk ==
    /\ pc = "connect"
    /\ socket' = 1
    /\ link' = "up"
    /\ inbox' = <<>>
    /\ rx' = <<>>
    /\ Serialize(cur, queue)
    /\ UNCHANGED <<chan, nsub, ndeq, rd, sent, senthdr, peerHonest, codecVars>>

\* try_open_socket: TcpStream::connect fails, the socket stays None
ConnectFail ==
    /\ pc = "connect"
    /\ Complete(cur, Err("Connect"))
    /\ UNCHANGED <<chan, queue, nsub, ndeq, socket, buffer, rd, envVars, codecVars>>

\* socket.write(msg) returns Ok(n): the transport took the first n bytes of
\* the slice; the count is not looked at
WriteDone(n) ==
    /\ pc = "write"
    /\ link = "up"
    /\ inbox' = Append(inbox, [id |-> cur.id, unit |-> cur.unit, arg |-> cur.arg,
                               complete |-> n >= FrameBytes(cur.arg)])
    /\ log' = Append(log, [ev |-> "write", id |-> cur.id])
    /\ pc' = "read_header"
    /\ UNCHANGED <<clientVars, ndeq, cur, socket, buffer, msglen, rlength, cursrc, rd,
                   link, rx, sent, senthdr, peerHonest, codecVars>>

\* socket.write(msg) fails: Error::Tx
WriteFail ==
    /\ pc = "write"
    /\ link = "broken"
    /\ Complete(cur, Err("Tx"))
    /\ UNCHANGED <<chan, queue, nsub, ndeq, socket, buffer, rd, envVars, codecVars>>

\* the first read_exact returns: 8 bytes are in the buffer, the header fields
\* are decoded and the slice for the second read is taken
ReadHeaderDone ==
    /\ pc = "read_header"
    /\ link = "up"
    /\ Len(rx) >= HeaderReadSize
    /\ LET got == Take(rx, HeaderReadSize)
           slice == Untagged(got)
           len == ReadU16BE(SubSeq(slice, 5, 6))
       IN  /\ rx' = Drop(rx, HeaderReadSize)
           /\ buffer' = slice \o Drop(buffer, HeaderReadSize)
           /\ cursrc' = cursrc \cup Tags(got)
           /\ rd' = [rd EXCEPT !.n = @ + HeaderReadSize, !.len = len]
           /\ IF len < 2 \/ BodyReadSize(len) > MAX_ADU_SIZE
              THEN Panic(cur, queue) /\ queue' = <<>>
              ELSE /\ pc' = "read_body"
                   /\ rlength' = len
                   /\ UNCHANGED <<queue, reply, log, msglen>>
    /\ UNCHANGED <<chan, nsub, ndeq, cur, socket, link, inbox, sent, senthdr, peerHonest, codecVars>>

\* the second read_exact returns: the payload is given to the response parser
ReadBodyDone ==
    /\ pc = "read_body"
    /\ link = "up"
    /\ Len(rx) >= BodyReadSize(rlength)
    /\ LET got == Take(rx, BodyReadSize(rlength))
           slice == Untagged(got)
           parsed == parse_response(slice, cur.arg)
       IN  /\ rx' = Drop(rx, BodyReadSize(rlength))
           /\ buffer' = slice \o Drop(buffer, BodyReadSize(rlength))
           /\ rd' = [rd EXCEPT !.n = @ + BodyReadSize(rlength), !.slice = slice]
           /\ Complete(cur, IF parsed.some
                            THEN Ok(parsed.data, cur.arg, cursrc \cup Tags(got))
                            ELSE Err("Rx"))
    /\ UNCHANGED <<chan, queue, nsub, ndeq, socket, link, inbox, sent, senthdr, peerHonest, codecVars>>

\* a read_exact fails: Error::Rx
ReadFail ==
    /\ pc \in {"read_header", "read_body"}
    /\ link = "broken"
    /\ Complete(cur, Err("Rx"))
    /\ UNCHANGED <<chan, queue, nsub, ndeq, socket, buffer, rd, envVars, codecVars>>

-----------------------------------------------------------------------------
(* The transport and the peer *)

\* the connection fails while a request is in flight; it does not recover
Break ==
    /\ pc \in {"write", "read_header", "read_body"}
    /\ link = "up"
    /\ link' = "broken"
    /\ UNCHANGED <<clientVars, serverVars, inbox, rx, sent, senthdr, peerHonest, log, codecVars>>

\* the peer answers the oldest request frame it has received completely
PeerRespond(r) ==
    /\ link = "up"
    /\ inbox # <<>>
    /\ Head(inbox).complete
    /\ inbox' = Tail(inbox)
    /\ rx' = rx \o Tagged(r.bytes, Head(inbox).id)
    /\ sent' = [sent EXCEPT ![Head(inbox).id] = r.payload]
    /\ senthdr' = [senthdr EXCEPT ![Head(inbox).id] = Take(r.bytes, HeaderReadSize)]
    /\ peerHonest' = (peerHonest /\ r.honest)
    /\ UNCHANGED <<clientVars, serverVars, link, log, codecVars>>

PeerAnswers == \E r \in HonestResponses(Head(inbox)) : PeerRespond(r)
PeerMisbehaves == \E r \in MalformedResponses(Head(inbox)) : PeerRespond(r)

-----------------------------------------------------------------------------
(* Specification of the channel engine *)

WriteCounts == IF pc = "write" THEN {msglen, MBAP_SIZE} ELSE {}

Init == EngineInit /\ FormatterInit /\ ParserInit

Next ==
    \/ DropChannel
    \/ \E u \in UnitIds, a \in Args : Submit(u, a)
    \/ Dequeue
    \/ RunExit
    \/ ConnectOk
    \/ ConnectFail
    \/ \E n \in WriteCounts : WriteDone(n)
    \/ WriteFail
    \/ ReadHeaderDone
    \/ ReadBodyDone
    \/ ReadFail
    \/ Break
    \/ inbox # <<>> /\ PeerAnswers
    \/ inbox # <<>> /\ PeerMisbehaves

Spec == Init /\ [][Next]_vars

\* the steps of the engine task, the transport and the peer
ServerNext ==
    \/ Dequeue
    \/ RunExit
    \/ ConnectOk
    \/ ConnectFail
    \/ \E n \in WriteCounts : WriteDone(n)
    \/ WriteFail
    \/ ReadHeaderDone
    \/ ReadBodyDone
    \/ ReadFail
    \/ Break
    \/ inbox # <<>> /\ PeerAnswers
    \/ inbox # <<>> /\ PeerMisbehaves

\* the engine with callers that abandon their calls; every call is the same
\* read, made on either session
NextCancel ==
    \/ DropChannel
    \/ \E u \in UnitIds : Submit(u, ReadCoils(0, 8))
    \/ \E i \in RequestIds : Abandon(i)
    \/ ServerNext

SpecCancel == Init /\ [][NextCancel]_vars

\* the engine with sessions that validate each call
NextCall ==
    \/ DropChannel
    \/ \E u \in UnitIds, a \in CallArgs : Call(u, a)
    \/ ServerNext

SpecCall == Init /\ [][NextCall]_vars

\* write_request on its own: requests of the engine's kind and requests with
\* payloads around the largest a frame holds, serialized one after the other
\* into the same buffer
PayloadSizes == {0, 1, 4, MAX_PDU_SIZE - 2, MAX_PDU_SIZE - 1, MAX_PDU_SIZE}

Payload(n, seed) == [fc |-> 1, quantity |-> 0, ser |-> Pattern(n, seed)]

WriteRequestCall(u, arg) ==
    /\ pc \in {"recv", "write"}
    /\ LET w == write_request(buffer, u, 0, arg)
       IN  /\ buffer' = w.buf
           /\ msglen' = w.len
           /\ pc' = IF w.kind = "ok" THEN "write"
                    ELSE IF w.kind = "err" THEN "recv" ELSE "panicked"
    /\ cur' = [id |-> 0, unit |-> u, arg |-> arg]
    /\ UNCHANGED <<clientVars, ndeq, socket, rlength, cursrc, rd, peerVars, codecVars>>

NextWrite ==
    \E u \in UnitIds, n \in PayloadSizes, seed \in ByteSample :
        WriteRequestCall(u, Payload(n, seed))

SpecWrite == Init /\ [][NextWrite]_vars

-----------------------------------------------------------------------------
(* Specifications of the codec *)

InitCodec == FormatterInit /\ ParserInit /\ EngineInit

NextCodec ==
    \/ \E id \in FormatIds, m \in Msgs : FormatCall(id[1], id[2], m)
    \/ ParseFormatted

SpecCodec == InitCodec /\ [][NextCodec]_vars

InitParse == FormatterInit /\ input \in ParseInputs /\ ParserFresh /\ EngineInit

NextParse ==
    \/ \E n \in ChunkSizes(Len(input) - fed) : Feed(n)
    \/ ParseAgain

SpecParse == InitParse /\ [][NextParse]_vars

\* the parser fed with streams of several frames
InitStream == FormatterInit /\ input \in FrameStreams /\ ParserFresh /\ EngineInit

SpecStream == InitStream /\ [][NextParse]_vars

-----------------------------------------------------------------------------
(* Properties of the codec *)

\* the fields of the header that was unread when the last parse call was made
LastHeaderComplete == pbefore.state.tag = "Begin" /\ Len(pbefore.buf) >= MBAP_HEADER_LENGTH
LastProtocolId == ReadU16BE(SubSeq(pbefore.buf, 3, 4))
LastLength == ReadU16BE(SubSeq(pbefore.buf, 5, 6))

\* C6 (as claimed): parsing the formatter's complete output with a new parser
\* gives one Frame with the formatted unit id, transaction id and message
\* bytes, with no byte left over and no further byte required.
RoundTrip ==
    (fout.ok /\ presult.kind # "init") =>
        /\ presult = FrameResult(Frame(fargs.unit_id, fargs.tx_id, fargs.msg))
        /\ rbuf = <<>>
        /\ pstate = Begin
        /\ nframes = 1

\* a stream is a complete frame when one parse call on all of it, by a new
\* parser, emits a Frame and leaves nothing unread
CompleteFrame(bytes) ==
    LET r == parse(Begin, bytes)
    IN  r.result.kind = "frame" /\ r.rest = <<>>

\* C7: when a complete frame is delivered in chunks with parse called after
\* each chunk, parse returns "no frame yet" after every proper prefix and after
\* the last chunk returns the one Frame that a single call on all the bytes
\* returns.
FragmentationInvariance ==
    (CompleteFrame(input) /\ fed > 0) =>
        IF fed < Len(input)
        THEN presult = NoFrameYet /\ nframes = 0
        ELSE /\ presult = parse(Begin, input).result
             /\ nframes = 1
             /\ rbuf = <<>>
             /\ pstate = Begin

\* a frame with a body, completed by a call made in the body-awaiting state
FragmentedFrameEmitted ==
    /\ CompleteFrame(input)
    /\ fed = Len(input)
    /\ Len(input) > MBAP_HEADER_LENGTH + 2
    /\ pbefore.state.tag = "Header"
    /\ presult.kind = "frame"

\* C8 (as claimed): a complete header whose length field exceeds the maximum
\* PDU size makes parse return the bad-length error, whatever the other header
\* fields are.
BadLengthWhateverOtherFields ==
    (LastHeaderComplete /\ LastLength > MAX_ADU_LENGTH) =>
        presult = BadADULength(LastLength)

\* C8 (amended): a complete header whose protocol id is zero and whose length
\* field exceeds the maximum PDU size makes parse return the bad-length error,
\* whatever the transaction id and unit id are and whether or not body bytes
\* are present.
BadLengthWhenProtocolIdZero ==
    (LastHeaderComplete /\ LastProtocolId = 0 /\ LastLength > MAX_ADU_LENGTH) =>
        /\ presult = BadADULength(LastLength)
        /\ pstate = Begin

\* the smallest rejected length, with body bytes present
BadLengthReturned ==
    /\ LastHeaderComplete
    /\ LastProtocolId = 0
    /\ LastLength = MAX_ADU_LENGTH + 1
    /\ Len(pbefore.buf) > MBAP_HEADER_LENGTH
    /\ presult.kind = "BadADULength"

\* C9: a complete header whose protocol id is not zero makes parse return
\* UnknownProtocolId with that protocol id, whatever the length and unit id
\* are, and the parser stays in the header-awaiting state.
ProtocolIdEnforced ==
    (LastHeaderComplete /\ LastProtocolId # 0) =>
        /\ presult = UnknownProtocolId(LastProtocolId)
        /\ pstate = Begin

\* a header that is wrong in both the protocol id and the length
UnknownProtocolIdBeforeLength ==
    /\ LastHeaderComplete
    /\ LastProtocolId # 0
    /\ LastLength > MAX_ADU_LENGTH
    /\ presult.kind = "UnknownProtocolId"

\* C10: for a message that fits the buffer, format returns the transaction id
\* in 2 bytes big-endian, 0 0, the message length plus one in 2 bytes
\* big-endian, the unit id, then the message unchanged: 7 + len(m) bytes, the
\* length field counting the bytes that follow it.
FormatExact ==
    (nfmt > 0 /\ Len(fargs.msg) <= MAX_ADU_LENGTH) =>
        /\ fout.ok
        /\ fout.out = U16BE(fargs.tx_id) \o <<0, 0>> \o U16BE(Len(fargs.msg) + 1)
                         \o <<fargs.unit_id>> \o fargs.msg
        /\ Len(fout.out) = MBAP_HEADER_LENGTH + Len(fargs.msg)
        /\ ReadU16BE(SubSeq(fout.out, 5, 6)) = Len(fout.out) - 6

\* the example of the unit test, formatted into a buffer that was used before
FormatExample ==
    /\ nfmt = 2
    /\ fargs = [tx_id |-> 7, unit_id |-> 42, msg |-> <<3, 4>>]
    /\ fout.out = <<0, 7, 0, 0, 0, 3, 42, 3, 4>>
    /\ \E i \in 10..MAX_MBAP_FRAME_LENGTH : fbuf[i] # 0

-----------------------------------------------------------------------------
(* Properties of the channel engine *)

InFlight == pc \in {"connect", "write", "read_header", "read_body"}

LastFilled == log[Len(log)].id

\* C1 (as claimed): every envelope the engine has dequeued and is no longer
\* processing has had exactly one value sent to its reply slot, whatever the
\* outcome was; no slot is filled twice and none is dropped unfilled.
ExactlyOneReply ==
    \A i \in 1..ndeq :
        \/ InFlight /\ cur.id = i
        \/ reply[i].state = "filled" /\ reply[i].fills = 1

\* C2 (as claimed): when the engine is back at the dequeue step after a
\* request that ended in a transmit or receive error, the socket is absent.
DisconnectedAfterFailure ==
    (/\ pc = "recv"
     /\ log # <<>>
     /\ log[Len(log)].ev = "fill"
     /\ reply[LastFilled].value.kind \in {"Tx", "Rx"}) => socket = 0

\* C3 (as claimed): while a submission handle exists, no outcome of a request
\* stops the engine: its task is at the dequeue step or processing a request.
EngineKeepsServing ==
    chan => pc \in {"recv", "connect", "write", "read_header", "read_body"}

\* C4: the frame of a request is written, and its reply slot is filled, only
\* after the reply slots of all requests enqueued before it have been filled.
FifoOrder ==
    \A i \in 1..Len(log) :
        \A a \in 1..(log[i].id - 1) :
            \E j \in 1..(i - 1) : log[j] = [ev |-> "fill", id |-> a]

\* two requests of different sessions, both enqueued, written and answered
TwoSessionsServedInOrder ==
    /\ log = <<[ev |-> "write", id |-> 1], [ev |-> "fill", id |-> 1],
               [ev |-> "write", id |-> 2], [ev |-> "fill", id |-> 2]>>
    /\ reply[1].unit # reply[2].unit
    /\ reply[1].fills = 1
    /\ reply[2].fills = 1

\* C5: while the peer answers each request frame in order, every byte the
\* engine reads for a request was sent in answer to that request, and an Ok
\* value in a reply slot is what the response parser makes of the payload the
\* peer sent for that request, with that request's argument.
OwnResponse ==
    peerHonest =>
        /\ cursrc \subseteq {cur.id}
        /\ \A i \in 1..nsub :
              (reply[i].state = "filled" /\ reply[i].value.kind = "Ok") =>
                  /\ reply[i].value.src = {i}
                  /\ reply[i].value.arg = reply[i].arg
                  /\ parse_response(sent[i], reply[i].arg).some
                  /\ reply[i].value.data = parse_response(sent[i], reply[i].arg).data

\* two sessions with different arguments, each answered with its own data
TwoSessionsOwnData ==
    /\ peerHonest
    /\ reply[1].value.kind = "Ok"
    /\ reply[2].value.kind = "Ok"
    /\ reply[1].unit # reply[2].unit
    /\ reply[1].arg # reply[2].arg
    /\ reply[1].value.data # reply[2].value.data

WrittenFor(i) == \E k \in 1..Len(log) : log[k] = [ev |-> "write", id |-> i]

\* C11: a connection is attempted only while the socket is absent, and a
\* request processed while it is absent is at that attempt; a request whose
\* attempt failed has the connect error in its reply slot, no frame was written
\* for it and the peer sent nothing for it, and the engine is left without a
\* socket and without a transport.
ConnectFailureHandled ==
    /\ pc = "connect" => socket = 0
    /\ (InFlight /\ socket = 0) => pc = "connect"
    /\ socket = 0 => (link = "none" /\ rx = <<>> /\ inbox = <<>>)
    /\ \A i \in 1..nsub :
          reply[i].value.kind = "Connect" =>
              /\ reply[i].state = "filled"
              /\ reply[i].fills = 1
              /\ ~WrittenFor(i)
              /\ sent[i] = <<>>
    /\ (/\ pc = "recv"
        /\ log # <<>>
        /\ reply[LastFilled].value.kind = "Connect"
        /\ log[Len(log)].ev = "fill") => socket = 0

\* the first request got the connect error and the second one, after a new
\* attempt, an answer
ConnectRetriedByNextRequest ==
    /\ reply[1].value.kind = "Connect"
    /\ reply[2].value.kind = "Ok"
    /\ log = <<[ev |-> "fill", id |-> 1], [ev |-> "write", id |-> 2],
               [ev |-> "fill", id |-> 2]>>

\* the answer the peer sent to request i is malformed: its protocol id is not
\* zero, its length field is too small to count the unit id and the function
\* code or larger than one frame allows, or its payload does not decode
Malformed(i) ==
    /\ senthdr[i] # <<>>
    /\ \/ ReadU16BE(SubSeq(senthdr[i], 3, 4)) # 0
       \/ ReadU16BE(SubSeq(senthdr[i], 5, 6)) < 2
       \/ ReadU16BE(SubSeq(senthdr[i], 5, 6)) > MAX_PDU_SIZE + 1
       \/ ~parse_response(sent[i], reply[i].arg).some

\* C12: a request whose response is malformed is answered with the receive
\* error, never with a value, and the engine task does not panic on it.
MalformedGetsRxError ==
    /\ pc # "panicked"
    /\ \A i \in 1..nsub :
          (Malformed(i) /\ reply[i].state # "pending") =>
              (reply[i].state = "filled" /\ reply[i].value.kind = "Rx")

\* C13: a reply slot whose receiver was dropped never changes what the engine
\* does: every request the engine has finished with, abandoned or not, had
\* exactly one send made to its slot, the value sent to an abandoned slot is
\* discarded, and the engine task ends only when its queue is closed and empty
\* or by the panic on a response's length field.
AbandonHarmless ==
    /\ \A i \in 1..ndeq : i = cur.id \/ reply[i].fills = 1
    /\ \A i \in 1..nsub :
          /\ reply[i].fills <= 1
          /\ reply[i].state = "abandoned" => reply[i].value = NoValue
          /\ reply[i].state = "filled" => reply[i].fills = 1
    /\ pc = "stopped" => (~chan /\ queue = <<>>)
    /\ pc = "panicked" =>
          /\ rd.n = HeaderReadSize
          /\ rd.len < 2 \/ BodyReadSize(rd.len) > MAX_ADU_SIZE

\* the first caller gave up, its request was still run to completion, and the
\* second caller got its answer
AbandonedThenServed ==
    /\ reply[1].state = "abandoned"
    /\ reply[1].fills = 1
    /\ WrittenFor(1)
    /\ reply[2].state = "filled"
    /\ reply[2].value.kind = "Ok"

\* request i is in the queue, in the engine's hands or with the peer
Submitted(i) ==
    \/ \E k \in 1..Len(queue) : queue[k].id = i
    \/ cur.id = i
    \/ \E k \in 1..Len(inbox) : inbox[k].id = i

LengthRangeEnforced ==
    LastHeaderComplete =>
        IF LastLength >= 1 /\ LastLength <= MAX_ADU_LENGTH + 1
        THEN LastProtocolId = 0 => presult.kind \in {"none", "frame"}
        ELSE /\ presult.kind \in {"UnknownProtocolId", "BadADULength"}
             /\ pstate = Begin

\* C16 (as claimed): a parse call that returns "no frame yet" leaves the read
\* position where it was, in the header-awaiting and in the body-awaiting
\* state.
NoFrameYetConsumesNothing ==
    presult = NoFrameYet => rbuf = pbefore.buf

\* C16 (amended): a parse call that returns "no frame yet" consumes nothing
\* and keeps its state, except for a call in the header-awaiting state that
\* finds a complete header: that call consumes the 7 header bytes, no more,
\* and goes to the body-awaiting state with the header it has read.
NoFrameYetConsumesOnlyHeader ==
    presult = NoFrameYet =>
        IF LastHeaderComplete
        THEN /\ rbuf = Drop(pbefore.buf, MBAP_HEADER_LENGTH)
             /\ pstate = Header(parse_header(pbefore.buf).hdr)
             /\ Len(rbuf) < pstate.length
        ELSE /\ rbuf = pbefore.buf
             /\ pstate = pbefore.state

\* a call in the body-awaiting state that finds a part of the body only
PartOfBodyLeftUnread ==
    /\ presult = NoFrameYet
    /\ pbefore.state.tag = "Header"
    /\ pbefore.buf # <<>>
    /\ rbuf = pbefore.buf

\* a call in the header-awaiting state that finds the header and a part of
\* the body
HeaderConsumedBodyAwaited ==
    /\ presult = NoFrameYet
    /\ LastHeaderComplete
    /\ Len(rbuf) > 0

\* the frames a byte stream begins with, cut at the places its length fields
\* give: 7 header bytes and as many payload bytes as the length field says,
\* up to the first header that is incomplete or not acceptable
RECURSIVE FramesIn(_)
FramesIn(bytes) ==
    IF \/ Len(bytes) < MBAP_HEADER_LENGTH
       \/ ReadU16BE(SubSeq(bytes, 3, 4)) # 0
       \/ ReadU16BE(SubSeq(bytes, 5, 6)) > MAX_ADU_LENGTH
       \/ Len(bytes) < MBAP_HEADER_LENGTH + ReadU16BE(SubSeq(bytes, 5, 6))
    THEN <<>>
    ELSE LET len == ReadU16BE(SubSeq(bytes, 5, 6))
         IN  <<Frame(bytes[7], ReadU16BE(SubSeq(bytes, 1, 2)),
                     SubSeq(bytes, MBAP_HEADER_LENGTH + 1, MBAP_HEADER_LENGTH + len))>>
             \o FramesIn(Drop(bytes, MBAP_HEADER_LENGTH + len))

\* the number of bytes the frames of fs take in a stream
RECURSIVE StreamBytes(_)
StreamBytes(fs) ==
    IF fs = <<>> THEN 0
    ELSE MBAP_HEADER_LENGTH + Len(Head(fs).payload) + StreamBytes(Tail(fs))

\* C17: the parser awaits a header after every call that emits a Frame or
\* returns a header error, is in the body-awaiting state only after "no frame
\* yet" and stays there with the same header across such calls; from a stream
\* of frames back to back the calls emit exactly the stream's frames in order,
\* the bytes consumed being those of the emitted frames and of the header the
\* parser holds or has just rejected.
StateCycleAndFrameOrder ==
    /\ presult.kind \in {"frame", "UnknownProtocolId", "BadADULength"} => pstate = Begin
    /\ presult.kind \in {"UnknownProtocolId", "BadADULength"} =>
          pbefore.state = Begin /\ rbuf = Drop(pbefore.buf, MBAP_HEADER_LENGTH)
    /\ pstate.tag = "Header" => presult = NoFrameYet
    /\ (presult = NoFrameYet /\ pbefore.state.tag = "Header") => pstate = pbefore.state
    /\ presult.kind = "frame" =>
          Len(pbefore.buf) - Len(rbuf) =
              Len(presult.payload)
              + (IF pbefore.state.tag = "Header" THEN 0 ELSE MBAP_HEADER_LENGTH)
    /\ nframes = Len(emitted)
    /\ emitted = SubSeq(FramesIn(input), 1, nframes)
    /\ fed - Len(rbuf) =
          StreamBytes(emitted)
          + (IF pstate.tag = "Header" \/ presult.kind \in {"UnknownProtocolId", "BadADULength"}
             THEN MBAP_HEADER_LENGTH ELSE 0)
    /\ (fed = Len(input) /\ rbuf = <<>> /\ pstate = Begin) => emitted = FramesIn(input)

\* a call that found several frames in the buffer: it emitted the second
\* frame of the stream and left the third one, complete, unread
SecondFrameEmittedThirdUnread ==
    /\ Len(FramesIn(input)) = 3
    /\ presult.kind = "frame"
    /\ emitted = SubSeq(FramesIn(input), 1, 2)
    /\ FramesIn(rbuf) = SubSeq(FramesIn(input), 3, 3)
    /\ emitted[1] # emitted[2]

\* the frame of the request being written: header with the length field
\* counting the bytes after it, unit id, function code, payload
RequestFrame(req) ==
    U16BE(0) \o U16BE(0) \o U16BE(2 + Len(req.arg.ser))
    \o <<req.unit, req.arg.fc>> \o req.arg.ser

\* C18: for a request whose function code and payload take at most 253 bytes,
\* write_request returns the slice that holds the request's frame and nothing
\* else: 7 + 1 + payload bytes, at most 260, the length field counting the
\* bytes after it; it does not fail and does not index past the buffer.
WriteRequestExact ==
    /\ pc # "panicked"
    /\ (cur # NoReq /\ 1 + Len(cur.arg.ser) <= MAX_PDU_SIZE) => pc # "recv"
    /\ pc = "write" =>
          /\ msglen = FrameBytes(cur.arg)
          /\ msglen <= MAX_ADU_SIZE
          /\ SubSeq(buffer, 1, msglen) = RequestFrame(cur)

\* C19: the engine is reading the response only when every byte of the
\* request's frame has been handed to the transport, and a request whose frame
\* was handed over in part only ends with the transmit error.
WholeFrameBeforeRead ==
    /\ pc \in {"read_header", "read_body"} =>
          \A k \in 1..Len(inbox) : inbox[k].complete
    /\ \A i \in 1..nsub :
          (reply[i].state = "filled" /\
           \E k \in 1..Len(inbox) : inbox[k].id = i /\ ~inbox[k].complete) =>
              reply[i].value.kind = "Tx"

\* the last request has completed, by the second read returning, with the
\* connection still open
CompletedOnOpenConnection ==
    /\ pc = "recv"
    /\ link = "up"
    /\ log # <<>>
    /\ log[Len(log)].ev = "fill"
    /\ rd.slice # <<>>

\* C20: when a request completes with the connection still open, the engine
\* has consumed 6 bytes and as many as the response's length field says, 8 in
\* the first read and length - 2 in the second; the bytes given to the
\* response parser are the ones that follow the function code, and after a
\* well-framed response no byte of it is left unread.
OneFrameConsumed ==
    /\ pc = "read_body" => (rd.n = MBAP_SIZE + 1 /\ rd.len = rlength)
    /\ CompletedOnOpenConnection =>
          /\ rd.n = 6 + rd.len
          /\ Len(rd.slice) = rd.len - 2
          /\ rd.slice = SubSeq(buffer, 1, Len(rd.slice))
          /\ reply[LastFilled].value.kind \in {"Ok", "Rx"}
          /\ peerHonest =>
                /\ rd.slice = sent[LastFilled]
                /\ rd.len = ReadU16BE(SubSeq(senthdr[LastFilled], 5, 6))
                /\ rx = <<>>

\* a response decoded and a response rejected by its parser, each consumed
\* whole, on the same connection
DecodedAndRejectedOnOneConnection ==
    /\ CompletedOnOpenConnection
    /\ peerHonest
    /\ reply[1].value.kind = "Rx"
    /\ reply[2].value.kind = "Ok"
    /\ LastFilled = 2
    /\ rd.n = 6 + rd.len
    /\ rx = <<>>

====
